---- MODULE Spec2Model ----
(***************************************************************************)
(* A model of the mcp-boilerplate server: the two registered tools         *)
(* (get_data, get_system_info), the data operation behind get_data, the    *)
(* response formatter and the call boundary of the tool dispatcher.        *)
(*                                                                         *)
(* Conventions                                                             *)
(*  - a JavaScript value is a record tagged with its type, [t |-> ...];    *)
(*    undefined is [t |-> "undefined"].                                    *)
(*  - a JavaScript number n is held as the integer 2n (half units), so     *)
(*    that 2.5 is 5 and non-integral limits can be passed.                 *)
(*  - a string the code inspects character by character (title,           *)
(*    description, category, filter) is a sequence of one-character        *)
(*    strings; other strings are TLA+ strings.                             *)
(*  - the code after the await of exampleDataOperation runs to its end     *)
(*    without yielding, so it is one step (Resume) with one clock reading. *)
(*                                                                         *)
(* Specifications                                                          *)
(*  Spec      the server, its client awaiting each response                *)
(*  SpecConc  the server with several calls in flight                      *)
(*  SpecFault the server over a data source whose awaited operation may    *)
(*            reject; with the shipped fixture it never does, and the      *)
(*            catch clause of the get_data handler is reached only here    *)
(*  SpecOp    exampleDataOperation called directly, as the unit tests do   *)
(*  SpecAll   the server and direct calls of exampleDataOperation          *)
(*  SpecFmt   formatResponse called directly with any value                *)
(*  SpecTwin  the server of server.ts and the one createServer() builds,   *)
(*            given the same requests in lock step                         *)
(*  SpecLive  the server with several calls in flight, the timer of every  *)
(*            awaited delay firing (weak fairness of Resume)               *)
(***************************************************************************)
EXTENDS Integers, Sequences, FiniteSets, TLC

VARIABLES
  calls,   \* call slot -> the call in it (position, arguments, response)
  clock,   \* the system clock read by new Date()
  faults,  \* values the awaited data source may reject with (empty: never)
  registry \* the names of the registered tools, in registration order

vars == <<calls, clock, faults, registry>>

\* Number of call slots (calls that can be in flight at once).
MaxCalls == 2
\* Largest clock value.
MaxClock == 1

CallIds == 1..MaxCalls

---------------------------------------------------------------------------
(* JavaScript values *)

Undefined == [t |-> "undefined"]
Str(chars) == [t |-> "string", v |-> chars]
Bool(b) == [t |-> "boolean", v |-> b]
\* The number h/2.
Number(h) == [t |-> "number", v |-> h]
\* The integer n as a number.
Int2Num(n) == 2 * n

\* ToIntegerOrInfinity of a finite number: truncation toward zero.
ToInteger(h) == IF h >= 0 THEN h \div 2 ELSE -((-h) \div 2)

Min(a, b) == IF a <= b THEN a ELSE b
Max(a, b) == IF a >= b THEN a ELSE b

\* Array.prototype.slice(start, end) with integral start >= 0 and numeric end.
Slice(arr, start, endNum) ==
  LET len == Len(arr)
      rel == ToInteger(endNum)
      final == IF rel < 0 THEN Max(len + rel, 0) ELSE Min(rel, len)
  IN  IF final <= start THEN <<>> ELSE SubSeq(arr, start + 1, final)

UpperChars == <<"A", "B", "C", "D", "E", "F", "G", "H", "I", "J", "K", "L", "M",
                "N", "O", "P", "Q", "R", "S", "T", "U", "V", "W", "X", "Y", "Z">>
LowerChars == <<"a", "b", "c", "d", "e", "f", "g", "h", "i", "j", "k", "l", "m",
                "n", "o", "p", "q", "r", "s", "t", "u", "v", "w", "x", "y", "z">>

\* String.prototype.toLowerCase on one character.
ToLowerChar(c) ==
  IF \E i \in 1..Len(UpperChars) : UpperChars[i] = c
  THEN LowerChars[CHOOSE i \in 1..Len(UpperChars) : UpperChars[i] = c]
  ELSE c

\* String.prototype.toLowerCase.
toLowerCase(s) == [i \in 1..Len(s) |-> ToLowerChar(s[i])]

\* A faulty includes: the last character of needle is not compared.
includesDropLast(hay, needle) ==
  \E i \in 0..(Len(hay) - Len(needle)) :
    \A j \in 1..(Len(needle) - 1) : hay[i + j] = needle[j]

\* String.prototype.includes: needle occurs in hay as a contiguous run.
includes(hay, needle) ==
  \E i \in 0..(Len(hay) - Len(needle)) :
    \A j \in 1..Len(needle) : hay[i + j] = needle[j]

\* JavaScript truthiness of a string-or-undefined value.
Truthy(x) == x.t = "string" /\ x.v # <<>>

\* Date.prototype.toISOString of the instant t.
toISOString(t) == "T" \o ToString(t)

---------------------------------------------------------------------------
(* The fixture of exampleDataOperation *)

NoMetadata == [def |-> FALSE]
Metadata(m) == [def |-> TRUE, map |-> m]

Item1 ==
  [ id |-> "1",
    title |-> <<"E", "x", "a", "m", "p", "l", "e", " ", "I", "t", "e", "m", " ", "1">>,
    description |->
      <<"T", "h", "i", "s", " ", "i", "s", " ", "a", " ", "s", "a", "m", "p", "l",
        "e", " ", "i", "t", "e", "m", " ", "f", "o", "r", " ", "d", "e", "m", "o",
        "n", "s", "t", "r", "a", "t", "i", "o", "n">>,
    category |-> <<"s", "a", "m", "p", "l", "e">>,
    metadata |-> NoMetadata,
    createdAt |-> "2024-01-01T00:00:00Z",
    updatedAt |-> "2024-01-01T00:00:00Z" ]

Item2 ==
  [ id |-> "2",
    title |-> <<"E", "x", "a", "m", "p", "l", "e", " ", "I", "t", "e", "m", " ", "2">>,
    description |->
      <<"A", "n", "o", "t", "h", "e", "r", " ", "s", "a", "m", "p", "l", "e", " ",
        "i", "t", "e", "m", " ", "w", "i", "t", "h", " ", "d", "i", "f", "f", "e",
        "r", "e", "n", "t", " ", "c", "a", "t", "e", "g", "o", "r", "y">>,
    category |-> <<"d", "e", "m", "o">>,
    metadata |-> NoMetadata,
    createdAt |-> "2024-01-02T00:00:00Z",
    updatedAt |-> "2024-01-02T00:00:00Z" ]

Item3 ==
  [ id |-> "3",
    title |-> <<"E", "x", "a", "m", "p", "l", "e", " ", "I", "t", "e", "m", " ", "3">>,
    description |->
      <<"T", "h", "i", "r", "d", " ", "s", "a", "m", "p", "l", "e", " ", "i", "t",
        "e", "m", " ", "f", "o", "r", " ", "t", "e", "s", "t", "i", "n", "g", " ",
        "f", "i", "l", "t", "e", "r", "s">>,
    category |-> <<"t", "e", "s", "t">>,
    metadata |-> Metadata([k \in {"tags"} |-> <<"important", "featured">>]),
    createdAt |-> "2024-01-03T00:00:00Z",
    updatedAt |-> "2024-01-03T00:00:00Z" ]

allItems == <<Item1, Item2, Item3>>

---------------------------------------------------------------------------
(* exampleDataOperation(input), resumed at clock value now.                *)
(* input = [limit |-> half units, filter |-> string or undefined,          *)
(*          includeMetadata |-> BOOLEAN]                                   *)

\* A faulty ItemMatches: the description is not searched.
ItemMatchesNoDescription(item, filter) ==
  \/ includes(toLowerCase(item.title), toLowerCase(filter))
  \/ includes(toLowerCase(item.category), toLowerCase(filter))

\* The predicate of allItems.filter.
ItemMatches(item, filter) ==
  \/ includes(toLowerCase(item.title), toLowerCase(filter))
  \/ includes(toLowerCase(item.description), toLowerCase(filter))
  \/ includes(toLowerCase(item.category), toLowerCase(filter))

\* A faulty filteredItems: an empty filter selects nothing.
filteredItemsEmptyNone(input) ==
  IF input.filter.t = "string"
  THEN IF input.filter.v = <<>> THEN <<>>
       ELSE SelectSeq(allItems, LAMBDA item : ItemMatches(item, input.filter.v))
  ELSE allItems

filteredItems(input) ==
  IF Truthy(input.filter)
  THEN SelectSeq(allItems, LAMBDA item : ItemMatches(item, input.filter.v))
  ELSE allItems

\* A faulty limitedItems: the slice ends one item late.
limitedItemsOffByOne(input) ==
  Slice(filteredItems(input), 0, input.limit + Int2Num(1))

limitedItems(input) == Slice(filteredItems(input), 0, input.limit)

\* A faulty SpreadMetadata: the item's own metadata is not spread.
SpreadMetadataNoSpread(metadata, now) ==
  [k \in {"processingTime", "source"} |->
     IF k = "processingTime" THEN toISOString(now) ELSE "example-data-source"]

\* { ...item.metadata, processingTime, source }
SpreadMetadata(metadata, now) ==
  LET old == IF metadata.def THEN metadata.map ELSE <<>>
      added == {"processingTime", "source"}
  IN  [k \in (DOMAIN old) \cup added |->
         IF k = "processingTime" THEN toISOString(now)
         ELSE IF k = "source" THEN "example-data-source"
         ELSE old[k]]

\* A faulty FinalMetadata: the fields are added whatever the flag.
FinalMetadataAlways(item, includeMetadata, now) ==
  Metadata(SpreadMetadata(item.metadata, now))

\* The metadata property of a final item.
FinalMetadata(item, includeMetadata, now) ==
  IF includeMetadata
  THEN Metadata(SpreadMetadata(item.metadata, now))
  ELSE item.metadata

\* A faulty FinalItem: every returned item's updatedAt is set to the time of
\* the call.
FinalItemTouched(item, includeMetadata, now) ==
  [item EXCEPT !.metadata = FinalMetadata(item, includeMetadata, now),
               !.updatedAt = toISOString(now)]

FinalItem(item, includeMetadata, now) ==
  [item EXCEPT !.metadata = FinalMetadata(item, includeMetadata, now)]

finalItems(input, now) ==
  LET limited == limitedItems(input)
  IN  [i \in 1..Len(limited) |-> FinalItem(limited[i], input.includeMetadata, now)]

\* A faulty TotalFound: counted after the limit is applied.
TotalFoundAfterLimit(input) == Len(limitedItems(input))

\* filteredItems.length
TotalFound(input) == Len(filteredItems(input))

\* A faulty exampleDataOperation: the echoed filter is the lower-cased one.
exampleDataOperationEchoLower(input, now) ==
  [ items |-> finalItems(input, now),
    totalFound |-> TotalFound(input),
    filters |-> IF input.filter.t = "string"
                THEN [input EXCEPT !.filter = Str(toLowerCase(input.filter.v))]
                ELSE input ]

\* A faulty FixtureAfter: the items returned had their metadata assigned in
\* place (item.metadata = ...) instead of being copied.
FixtureAfterInPlace(input, now) ==
  [ i \in 1..Len(allItems) |->
      IF \E k \in 1..Len(limitedItems(input)) :
           limitedItems(input)[k].id = allItems[i].id
      THEN FinalItem(allItems[i], input.includeMetadata, now)
      ELSE allItems[i] ]

\* The call's allItems array when exampleDataOperation returns: filter and
\* slice build new arrays, map builds new item objects and the spread of
\* item.metadata a new mapping; nothing assigns to allItems, to an item or to
\* an item's metadata.
FixtureAfter(input, now) == allItems

exampleDataOperation(input, now) ==
  [ items |-> finalItems(input, now),
    totalFound |-> TotalFound(input),
    filters |-> input ]

---------------------------------------------------------------------------
(* formatResponse: the JSON document of a data-operation result.           *)
(* JSON.stringify leaves out a property whose value is undefined.          *)

JsonItem(item) ==
  [k \in {"id", "title", "description", "category", "createdAt", "updatedAt"}
         \cup (IF item.metadata.def THEN {"metadata"} ELSE {}) |->
     IF k = "metadata" THEN item.metadata.map ELSE item[k]]

JsonFilters(input) ==
  [k \in {"limit", "includeMetadata"}
         \cup (IF input.filter.t = "undefined" THEN {} ELSE {"filter"}) |->
     IF k = "limit" THEN input.limit
     ELSE IF k = "includeMetadata" THEN input.includeMetadata
     ELSE input.filter.v]

JsonResult(result) ==
  [ items |-> [i \in 1..Len(result.items) |-> JsonItem(result.items[i])],
    totalFound |-> result.totalFound,
    filters |-> JsonFilters(result.filters) ]

\* JSON.stringify(data, null, indent): the text of a JSON document.
stringify(data, indent) ==
  [form |-> "json", indent |-> indent, value |-> JsonResult(data)]

formatResponse(data, format) ==
  IF format = "compact-json" THEN stringify(data, 0) ELSE stringify(data, 2)

\* A text made of lines joined by "\n".
PlainText(lines) == [form |-> "plain", lines |-> lines]

---------------------------------------------------------------------------
(* Envelopes and thrown values *)

NoResponse == [kind |-> "none"]
\* { content: [{ type: 'text', text }] }
TextEnvelope(text) ==
  [kind |-> "result", content |-> <<[type |-> "text", text |-> text]>>]
\* A JSON-RPC error response: the call failed at the protocol level.
ProtocolError == [kind |-> "error"]
\* An exception that left the handler.
Escaped(error) == [kind |-> "thrown", error |-> error]
\* The value a direct caller of exampleDataOperation receives.
Returned(value) == [kind |-> "value", value |-> value]

JsError(message) == [isError |-> TRUE, message |-> message]
\* A thrown value that is no Error instance (a string, undefined, ...).
NonError == [isError |-> FALSE, message |-> ""]

Fulfilled == [threw |-> FALSE]
Rejected(error) == [threw |-> TRUE, error |-> error]

\* The values the awaited data source may reject with, when it can fail.
FaultValues == {JsError("Data source unavailable"), JsError(""), NonError}

---------------------------------------------------------------------------
(* formatResponse on any value: the characters JSON.stringify produces and  *)
(* the catch clause.  Besides undefined, strings, numbers and booleans, a   *)
(* value is null, an array, an object (its properties in insertion order),  *)
(* a BigInt, an object that contains itself, or an object whose toJSON      *)
(* method throws on its first calls and returns a value afterwards.         *)

Null == [t |-> "null"]
Arr(elems) == [t |-> "array", v |-> elems]
Prop(key, value) == [k |-> key, v |-> value]
Obj(props) == [t |-> "object", v |-> props]
BigInt == [t |-> "bigint"]
Cyclic == [t |-> "cyclic"]
\* toJSON throws on its first `fails` calls, then returns value.
Flaky(fails, value) == [t |-> "toJSON", fails |-> fails, v |-> value]

DigitChars == <<"0", "1", "2", "3", "4", "5", "6", "7", "8", "9">>

RECURSIVE Digits(_)
\* The decimal digits of a natural number.
Digits(n) ==
  IF n < 10 THEN <<DigitChars[n + 1]>>
  ELSE Digits(n \div 10) \o <<DigitChars[(n % 10) + 1]>>

\* Number::toString of the number h/2.
NumberText(h) ==
  LET a == IF h < 0 THEN -h ELSE h
  IN  (IF h < 0 THEN <<"-">> ELSE <<>>)
        \o Digits(a \div 2)
        \o (IF a % 2 = 1 THEN <<".", "5">> ELSE <<>>)

\* QuoteJSONString: the escapes of the characters a string can hold here.
EscapeChar(ch) ==
  IF ch = "\"" THEN <<"\\", "\"">>
  ELSE IF ch = "\\" THEN <<"\\", "\\">>
  ELSE IF ch = "\n" THEN <<"\\", "n">>
  ELSE <<ch>>

RECURSIVE EscapeChars(_)
EscapeChars(chars) ==
  IF chars = <<>> THEN <<>>
  ELSE EscapeChar(Head(chars)) \o EscapeChars(Tail(chars))

Quote(chars) == <<"\"">> \o EscapeChars(chars) \o <<"\"">>

RECURSIVE Spaces(_)
Spaces(n) == IF n <= 0 THEN <<>> ELSE <<" ">> \o Spaces(n - 1)

\* The line break and indentation before an element at nesting level: none
\* when the gap is empty.
Break(indent, level) ==
  IF indent = 0 THEN <<>> ELSE <<"\n">> \o Spaces(indent * level)

RECURSIVE JoinParts(_, _)
\* The parts, each but the first preceded by sep.
JoinParts(parts, sep) ==
  IF Len(parts) = 0 THEN <<>>
  ELSE IF Len(parts) = 1 THEN parts[1]
  ELSE parts[1] \o sep \o JoinParts(Tail(parts), sep)

\* The properties JSON.stringify writes: those whose value is not undefined.
Written(props) == SelectSeq(props, LAMBDA p : p.v.t # "undefined")

RECURSIVE SerializeJSONProperty(_, _, _)
\* SerializeJSONProperty of a value that does not throw, at nesting level.
SerializeJSONProperty(x, indent, level) ==
  IF x.t = "null" THEN <<"n", "u", "l", "l">>
  ELSE IF x.t = "undefined" THEN <<"n", "u", "l", "l">>
  ELSE IF x.t = "boolean"
    THEN IF x.v THEN <<"t", "r", "u", "e">> ELSE <<"f", "a", "l", "s", "e">>
  ELSE IF x.t = "number" THEN NumberText(x.v)
  ELSE IF x.t = "string" THEN Quote(x.v)
  ELSE IF x.t = "toJSON" THEN SerializeJSONProperty(x.v, indent, level)
  ELSE IF x.t = "array"
    THEN IF x.v = <<>> THEN <<"[", "]">>
         ELSE <<"[">> \o Break(indent, level + 1)
                \o JoinParts([i \in 1..Len(x.v) |->
                                SerializeJSONProperty(x.v[i], indent, level + 1)],
                             <<",">> \o Break(indent, level + 1))
                \o Break(indent, level) \o <<"]">>
  ELSE LET props == Written(x.v)
       IN  IF props = <<>> THEN <<"{", "}">>
           ELSE <<"{">> \o Break(indent, level + 1)
                  \o JoinParts([i \in 1..Len(props) |->
                                  Quote(props[i].k) \o <<":">>
                                    \o (IF indent = 0 THEN <<>> ELSE <<" ">>)
                                    \o SerializeJSONProperty(props[i].v, indent,
                                                             level + 1)],
                               <<",">> \o Break(indent, level + 1))
                  \o Break(indent, level) \o <<"}">>

RECURSIVE Throws(_, _)
\* JSON.stringify of x throws when it is called for the attempt-th time.
Throws(x, attempt) ==
  IF x.t \in {"bigint", "cyclic"} THEN TRUE
  ELSE IF x.t = "toJSON" THEN x.fails >= attempt \/ Throws(x.v, attempt)
  ELSE IF x.t = "array" THEN \E i \in 1..Len(x.v) : Throws(x.v[i], attempt)
  ELSE IF x.t = "object" THEN \E i \in 1..Len(x.v) : Throws(x.v[i].v, attempt)
  ELSE FALSE

\* What a throwing JSON.stringify throws.
TypeError == JsError("Do not know how to serialize the value")

\* JSON.stringify(x, null, indent) when it does not throw: undefined for
\* undefined, the JSON text otherwise.
JSONstringify(x, indent) ==
  IF x.t = "undefined" THEN Undefined
  ELSE Str(SerializeJSONProperty(x, indent, 0))

\* A faulty formatResponseAny: the two cases of the switch are exchanged.
formatResponseAnySwapped(data, format) ==
  LET first == IF format = Str("compact-json") THEN 2 ELSE 0
  IN  IF ~Throws(data, 1)
      THEN [threw |-> FALSE, value |-> JSONstringify(data, first),
            logged |-> 0, attempts |-> <<first>>]
      ELSE IF ~Throws(data, 2)
      THEN [threw |-> FALSE, value |-> JSONstringify(data, 2),
            logged |-> 1, attempts |-> <<first, 2>>]
      ELSE [threw |-> TRUE, value |-> TypeError,
            logged |-> 1, attempts |-> <<first, 2>>]

\* A faulty formatResponseAny: the catch clause repeats the failed call, with
\* the gap of the first attempt, until it has tried three times.
formatResponseAnyRetrySame(data, format) ==
  LET first == IF format = Str("compact-json") THEN 0 ELSE 2
  IN  IF ~Throws(data, 1)
      THEN [threw |-> FALSE, value |-> JSONstringify(data, first),
            logged |-> 0, attempts |-> <<first>>]
      ELSE IF ~Throws(data, 2)
      THEN [threw |-> FALSE, value |-> JSONstringify(data, first),
            logged |-> 1, attempts |-> <<first, first>>]
      ELSE IF ~Throws(data, 3)
      THEN [threw |-> FALSE, value |-> JSONstringify(data, first),
            logged |-> 2, attempts |-> <<first, first, first>>]
      ELSE [threw |-> TRUE, value |-> TypeError,
            logged |-> 2, attempts |-> <<first, first, first>>]

\* formatResponse(data, format) for any data: what it returns or throws, the
\* number of console.error calls it made and the gap of each JSON.stringify
\* call it made.
formatResponseAny(data, format) ==
  LET first == IF format = Str("compact-json") THEN 0 ELSE 2
  IN  IF ~Throws(data, 1)
      THEN [threw |-> FALSE, value |-> JSONstringify(data, first),
            logged |-> 0, attempts |-> <<first>>]
      ELSE IF ~Throws(data, 2)
      THEN [threw |-> FALSE, value |-> JSONstringify(data, 2),
            logged |-> 1, attempts |-> <<first, 2>>]
      ELSE [threw |-> TRUE, value |-> TypeError,
            logged |-> 1, attempts |-> <<first, 2>>]

---------------------------------------------------------------------------
(* The tools of server.ts *)

MinLimit == 1
MaxLimit == 100
DefaultLimit == 10

OutputModes == {"json", "compact-json"}
InfoKinds == {"date", "timezone", "version", "all"}

\* A faulty LimitValid: no lower or upper bound.
LimitValidNoBounds(x) == x.t \in {"undefined", "number"}

\* z.number().min(1).max(100).optional()
LimitValid(x) ==
  \/ x.t = "undefined"
  \/ x.t = "number" /\ x.v >= Int2Num(MinLimit) /\ x.v <= Int2Num(MaxLimit)

\* The get_data parameter schema accepts args.
GetDataValid(args) ==
  /\ LimitValid(args.limit)
  /\ args.filter.t \in {"undefined", "string"}
  /\ args.includeMetadata.t \in {"undefined", "boolean"}
  /\ \/ args.outputMode.t = "undefined"
     \/ args.outputMode.t = "string" /\ args.outputMode.v \in OutputModes

\* A faulty GetDataInput: an omitted limit becomes the largest limit and an
\* omitted filter the empty string.
GetDataInputOtherDefaults(args) ==
  [ limit |-> IF args.limit.t = "undefined" THEN Int2Num(MaxLimit)
              ELSE args.limit.v,
    filter |-> IF args.filter.t = "undefined" THEN Str(<<>>) ELSE args.filter,
    includeMetadata |-> IF args.includeMetadata.t = "undefined" THEN FALSE
                        ELSE args.includeMetadata.v,
    outputMode |-> IF args.outputMode.t = "undefined" THEN "json"
                   ELSE args.outputMode.v ]

\* The parsed get_data input: defaults applied.
GetDataInput(args) ==
  [ limit |-> IF args.limit.t = "undefined" THEN Int2Num(DefaultLimit)
              ELSE args.limit.v,
    filter |-> args.filter,
    includeMetadata |-> IF args.includeMetadata.t = "undefined" THEN FALSE
                        ELSE args.includeMetadata.v,
    outputMode |-> IF args.outputMode.t = "undefined" THEN "json"
                   ELSE args.outputMode.v ]

\* A faulty SystemInfoValid: any string is taken.
SystemInfoValidAnyString(args) == args.info.t \in {"undefined", "string"}

\* The get_system_info parameter schema accepts args.
SystemInfoValid(args) ==
  \/ args.info.t = "undefined"
  \/ args.info.t = "string" /\ args.info.v \in InfoKinds

SystemInfoInput(args) ==
  [info |-> IF args.info.t = "undefined" THEN "all" ELSE args.info.v]

\* The object the get_data handler passes to exampleDataOperation.
DataOperationInput(input) ==
  [ limit |-> input.limit,
    filter |-> input.filter,
    includeMetadata |-> input.includeMetadata ]

\* A faulty CatchText: the message is used whatever was thrown.
CatchTextAlwaysMessage(error) == "Error: " \o error.message

\* The text of the get_data handler's catch clause.
CatchText(error) ==
  "Error: " \o (IF error.isError THEN error.message ELSE "Unknown error occurred")

\* A faulty getDataHandler: no try/catch.
getDataHandlerNoCatch(input, outcome, now) ==
  IF outcome.threw
  THEN Escaped(outcome.error)
  ELSE TextEnvelope(formatResponse(
         exampleDataOperation(DataOperationInput(input), now),
         input.outputMode))

\* The get_data handler once the awaited exampleDataOperation settles.
getDataHandler(input, outcome, now) ==
  IF outcome.threw
  THEN TextEnvelope(PlainText(<<CatchText(outcome.error)>>))
  ELSE TextEnvelope(formatResponse(
         exampleDataOperation(DataOperationInput(input), now),
         input.outputMode))

\* Intl.DateTimeFormat().resolvedOptions().timeZone
timezone == "UTC"
version == "0.1.0"
\* now.toISOString().split('T')[0]
currentDate(now) == "D" \o ToString(now)

\* A faulty SystemInfoText: the 'date' case falls through into 'timezone'.
SystemInfoTextFallThrough(info, now) ==
  IF info = "date"
  THEN <<"Current date: " \o currentDate(now), "Timezone: " \o timezone>>
  ELSE <<"Server version: " \o version>>

SystemInfoText(info, now) ==
  IF info = "date" THEN <<"Current date: " \o currentDate(now)>>
  ELSE IF info = "timezone" THEN <<"Timezone: " \o timezone>>
  ELSE IF info = "version" THEN <<"Server version: " \o version>>
  ELSE << "Current date: " \o currentDate(now),
          "Current time: " \o toISOString(now),
          "Timezone: " \o timezone,
          "Server version: " \o version,
          "",
          "Use this information for date filtering and context." >>

getSystemInfoHandler(input, now) ==
  TextEnvelope(PlainText(SystemInfoText(input.info, now)))

\* A faulty RegisteredTools: the four tools the README and the changelog list.
DocumentedTools == <<"get_data", "search_items", "analyze_data", "get_system_info">>

\* The tools server.ts registers, in order.
RegisteredTools == <<"get_data", "get_system_info">>

---------------------------------------------------------------------------
(* The server createServer() of test-server-setup.ts builds: its own        *)
(* registrations, schemas and handlers, over the same exampleDataOperation *)
(* and formatResponse.                                                     *)

\* The tools createServer registers, in order.
TestRegisteredTools == <<"get_data", "get_system_info">>

TestIsRegistered(name) ==
  \E i \in 1..Len(TestRegisteredTools) : TestRegisteredTools[i] = name

\* A faulty TestLimitValid: a copy of the schema that has drifted to max(50).
TestLimitValidMax50(x) ==
  \/ x.t = "undefined"
  \/ x.t = "number" /\ x.v >= Int2Num(1) /\ x.v <= Int2Num(50)

\* z.number().min(1).max(100).optional()
TestLimitValid(x) ==
  \/ x.t = "undefined"
  \/ x.t = "number" /\ x.v >= Int2Num(1) /\ x.v <= Int2Num(100)

TestGetDataValid(args) ==
  /\ TestLimitValid(args.limit)
  /\ args.filter.t \in {"undefined", "string"}
  /\ args.includeMetadata.t \in {"undefined", "boolean"}
  /\ \/ args.outputMode.t = "undefined"
     \/ args.outputMode.t = "string"
        /\ args.outputMode.v \in {"json", "compact-json"}

TestGetDataInput(args) ==
  [ limit |-> IF args.limit.t = "undefined" THEN Int2Num(10) ELSE args.limit.v,
    filter |-> args.filter,
    includeMetadata |-> IF args.includeMetadata.t = "undefined" THEN FALSE
                        ELSE args.includeMetadata.v,
    outputMode |-> IF args.outputMode.t = "undefined" THEN "json"
                   ELSE args.outputMode.v ]

TestSystemInfoValid(args) ==
  \/ args.info.t = "undefined"
  \/ args.info.t = "string"
     /\ args.info.v \in {"date", "timezone", "version", "all"}

TestSystemInfoInput(args) ==
  [info |-> IF args.info.t = "undefined" THEN "all" ELSE args.info.v]

\* The get_data handler of createServer once exampleDataOperation settles.
testGetDataHandler(input, outcome, now) ==
  IF outcome.threw
  THEN TextEnvelope(PlainText(
         <<"Error: " \o (IF outcome.error.isError THEN outcome.error.message
                         ELSE "Unknown error occurred")>>))
  ELSE TextEnvelope(formatResponse(
         exampleDataOperation([ limit |-> input.limit,
                                filter |-> input.filter,
                                includeMetadata |-> input.includeMetadata ], now),
         input.outputMode))

\* The get_system_info handler of createServer.
testGetSystemInfoHandler(input, now) ==
  LET date == "D" \o ToString(now)
      time == toISOString(now)
      zone == "UTC"
      ver == "0.1.0"
  IN  TextEnvelope(PlainText(
        IF input.info = "date" THEN <<"Current date: " \o date>>
        ELSE IF input.info = "timezone" THEN <<"Timezone: " \o zone>>
        ELSE IF input.info = "version" THEN <<"Server version: " \o ver>>
        ELSE << "Current date: " \o date,
                "Current time: " \o time,
                "Timezone: " \o zone,
                "Server version: " \o ver,
                "",
                "Use this information for date filtering and context." >>))

---------------------------------------------------------------------------
(* Inputs *)

NoArgs == [ limit |-> Undefined, filter |-> Undefined, includeMetadata |-> Undefined,
            outputMode |-> Undefined, info |-> Undefined ]
NoInput == [none |-> TRUE]

Sample == <<"s", "a", "m", "p", "l", "e">>

\* Arguments of the tools/call requests a client sends, one at a time.
\* Limits: absent, -1, 0, 0.5, 1, 2, 2.5, 100, 100.5, 101 and the string "2".
LimitArgs ==
  { Undefined, Number(-2), Number(0), Number(1), Number(2), Number(4), Number(5),
    Number(200), Number(201), Number(202), Str(<<"2">>) }
FilterArgs ==
  { Undefined, Str(<<>>), Str(Sample), Str(<<"D", "E", "M", "O">>),
    Str(<<"x", "y", "z">>), Bool(TRUE) }
IncludeMetadataArgs == {Undefined, Bool(TRUE), Bool(FALSE), Str(<<"y", "e", "s">>)}
OutputModeArgs == {Undefined, Str("json"), Str("compact-json"), Str("xml"), Number(0)}
InfoArgs == {Undefined, Str("date"), Str("timezone"), Str("version"), Str("all"),
             Str("uptime"), Bool(TRUE)}

GetDataRequests ==
  { [name |-> "get_data",
     args |-> [NoArgs EXCEPT !.limit = l, !.filter = f,
                             !.includeMetadata = m, !.outputMode = o]] :
      l \in LimitArgs, f \in FilterArgs,
      m \in IncludeMetadataArgs, o \in OutputModeArgs }

SystemInfoRequests ==
  { [name |-> "get_system_info", args |-> [NoArgs EXCEPT !.info = i]] :
      i \in InfoArgs }

UnknownToolRequests ==
  { [name |-> n, args |-> NoArgs] :
      n \in {"nonexistent_tool", "search_items", "analyze_data"} }

Requests == GetDataRequests \cup SystemInfoRequests \cup UnknownToolRequests

\* The requests of clients that have several calls in flight at once.
ConcRequests ==
  { [name |-> "get_data",
     args |-> [NoArgs EXCEPT !.limit = l, !.filter = f, !.includeMetadata = m]] :
      l \in {Undefined, Number(4)},
      f \in {Undefined, Str(<<"d", "e", "m", "o">>)},
      m \in {Undefined, Bool(TRUE)} }
    \cup { [name |-> "get_data", args |-> [NoArgs EXCEPT !.limit = Number(-2)]],
           [name |-> "get_system_info", args |-> NoArgs],
           [name |-> "nonexistent_tool", args |-> NoArgs] }

\* The requests of the clients whose calls are followed to their end: two
\* valid get_data calls, one with a limit out of range, and get_system_info.
LiveRequests ==
  { [name |-> "get_data", args |-> NoArgs],
    [name |-> "get_data",
     args |-> [NoArgs EXCEPT !.limit = Number(4),
                             !.filter = Str(<<>>),
                             !.includeMetadata = Bool(TRUE)]],
    [name |-> "get_data", args |-> [NoArgs EXCEPT !.limit = Number(202)]],
    [name |-> "get_system_info", args |-> NoArgs] }

\* Inputs of direct calls of exampleDataOperation (as the unit tests make).
\* Limits: -1, 0, 0.5, 1, 1.5, 2, 2.5, 3, 4, 5, 100, 100.5.
DirectLimits == {-2, 0, 1, 2, 3, 4, 5, 6, 8, 10, 200, 201}
DirectFilters ==
  { Undefined, Str(<<>>), Str(Sample),
    Str(<<"S", "A", "M", "P", "L", "E">>),
    Str(<<"d", "e", "m", "o">>),
    Str(<<"D", "e", "M", "o">>),
    Str(<<"I", "t", "e", "m", " ", "3">>),
    Str(<<"f", "i", "l", "t", "e", "r", "s">>),
    Str(<<"t", "e", "s", "t">>),
    Str(<<"i", "t", "e", "m", " ", "f", "o", "r", " ", "t">>),
    Str(<<"i", "m", "p", "o", "r", "t", "a", "n", "t">>),
    Str(<<"2", "0", "2", "4">>),
    Str(<<"x", "y", "z">>) }

DirectInputs ==
  { [limit |-> l, filter |-> f, includeMetadata |-> m] :
      l \in DirectLimits, f \in DirectFilters, m \in BOOLEAN }

\* Values handed to formatResponse.  Atoms: null, booleans, the numbers 0,
\* 2.5, -1.5, 12 and 100.5, and strings that hold spaces, quotes,
\* backslashes, line feeds and the structural characters of JSON.
JsonAtoms ==
  { Null, Bool(TRUE), Bool(FALSE),
    Number(0), Number(5), Number(-3), Number(24), Number(201),
    Str(<<>>), Str(<<"a", " ", "b">>), Str(<<"\"", ",", "]">>),
    Str(<<"\\", "\n", ":", " ">>), Str(<<"{", "n", "u", "l", "l">>) }

JsonKeys == { <<"k">>, <<"a", " ", "\"">>, <<":", "\n">> }

\* Arrays and objects of atoms.
JsonFlat ==
  { Arr(<<>>), Obj(<<>>) }
    \cup { Arr(<<a>>) : a \in JsonAtoms }
    \cup { Arr(<<a, b>>) : a \in {Null, Number(5), Str(<<"a", " ", "b">>)},
                           b \in {Bool(FALSE), Number(-3), Str(<<"\"", ",", "]">>)} }
    \cup { Obj(<<Prop(k, a)>>) : k \in JsonKeys, a \in JsonAtoms }
    \cup { Obj(<<Prop(<<"k">>, a), Prop(<<"a", " ", "\"">>, b)>>) :
             a \in {Null, Number(24)}, b \in {Bool(TRUE), Str(<<>>)} }

\* Arrays and objects that hold arrays and objects.
JsonNested ==
  { Arr(<<c>>) : c \in {Arr(<<>>), Obj(<<>>), Arr(<<Number(5)>>),
                        Obj(<<Prop(<<"k">>, Str(<<"a", " ", "b">>))>>)} }
    \cup { Obj(<<Prop(<<"i", "t", "e", "m", "s">>, Arr(<<c, c>>)),
                 Prop(<<"t", "o", "t", "a", "l">>, Number(4))>>) :
             c \in {Obj(<<>>), Arr(<<Null>>),
                    Obj(<<Prop(<<"i", "d">>, Str(<<"1">>)),
                          Prop(<<"t", "a", "g", "s">>, Arr(<<Str(<<"x">>)>>))>>)} }

\* Values with nothing but null, booleans, numbers, strings, arrays and
\* objects in them.
JsonValues == JsonAtoms \cup JsonFlat \cup JsonNested

\* Values JSON.stringify accepts although JSON cannot hold them, and values
\* it throws on: always (a BigInt, an object that contains itself) or on the
\* first calls only (a toJSON method that fails once or twice).
OtherValues ==
  { Undefined,
    Arr(<<Undefined, Number(5)>>),
    Obj(<<Prop(<<"k">>, Undefined), Prop(<<"i", "d">>, Str(<<"1">>))>>),
    Flaky(0, Str(<<"a", " ", "b">>)),
    BigInt, Cyclic,
    Arr(<<Number(5), Cyclic>>),
    Obj(<<Prop(<<"k">>, BigInt)>>),
    Flaky(1, Arr(<<Number(5), Null>>)),
    Flaky(2, Arr(<<Number(5), Null>>)),
    Obj(<<Prop(<<"k">>, Flaky(1, Obj(<<Prop(<<"i", "d">>, Str(<<"1">>))>>)))>>),
    Arr(<<Flaky(1, Null), BigInt>>) }

FormatData == JsonValues \cup OtherValues
\* The format argument: absent, 'json' or 'compact-json'.
FormatArgs == {Undefined, Str("json"), Str("compact-json")}

---------------------------------------------------------------------------
(* State *)

\* The call has not built its allItems array.
NoFixture == <<>>

\* A call slot: its position, the request, the input its handler received,
\* whether the get_data handler was entered, how the awaited operation
\* settled, the response, the call's own allItems array as the call left it,
\* and whether another call was suspended at its await when this one resumed.
IdleCall ==
  [ pc |-> "idle", name |-> "", args |-> NoArgs, input |-> NoInput,
    entered |-> FALSE, outcome |-> Fulfilled, response |-> NoResponse,
    fixture |-> NoFixture, overlap |-> FALSE ]

Init ==
  /\ calls = [c \in CallIds |-> IdleCall]
  /\ clock = 0
  /\ faults = {}
  /\ registry = RegisteredTools

\* The same server with a data source that can fail.
InitFault ==
  /\ calls = [c \in CallIds |-> IdleCall]
  /\ clock = 0
  /\ faults = FaultValues
  /\ registry = RegisteredTools

IsRegistered(name) == \E i \in 1..Len(registry) : registry[i] = name

\* The dispatcher's schema check of a request for a registered tool.
ArgsValid(req) ==
  IF req.name = "get_data" THEN GetDataValid(req.args)
  ELSE SystemInfoValid(req.args)

\* The request is refused before any handler runs.
RejectedCall(req) ==
  [ pc |-> "done", name |-> req.name, args |-> req.args, input |-> NoInput,
    entered |-> FALSE, outcome |-> Fulfilled, response |-> ProtocolError,
    fixture |-> NoFixture, overlap |-> FALSE ]

\* The get_data handler has called exampleDataOperation, which awaits its timer.
AwaitingCall(req) ==
  [ pc |-> "awaiting", name |-> req.name, args |-> req.args,
    input |-> GetDataInput(req.args),
    entered |-> TRUE, outcome |-> Fulfilled, response |-> NoResponse,
    fixture |-> NoFixture, overlap |-> FALSE ]

\* The get_system_info handler has no await: it completes at once.
SystemInfoCall(req, now) ==
  [ pc |-> "done", name |-> req.name, args |-> req.args,
    input |-> SystemInfoInput(req.args),
    entered |-> FALSE, outcome |-> Fulfilled,
    response |-> getSystemInfoHandler(SystemInfoInput(req.args), now),
    fixture |-> NoFixture, overlap |-> FALSE ]

\* What the dispatcher does with a tools/call request.
Dispatch(req, now) ==
  IF ~IsRegistered(req.name) \/ ~ArgsValid(req) THEN RejectedCall(req)
  ELSE IF req.name = "get_data" THEN AwaitingCall(req)
  ELSE SystemInfoCall(req, now)

\* A tools/call request out of reqs arrives for slot c.
ToolCall(c, reqs) ==
  /\ calls[c].pc = "idle"
  /\ \E req \in reqs :
       calls' = [calls EXCEPT ![c] = Dispatch(req, clock)]
  /\ UNCHANGED <<clock, faults, registry>>

\* No call is in flight and no response waits to be collected.
AllIdle == \A d \in CallIds : calls[d].pc = "idle"

\* A client that awaits each response before its next request.
SeqToolCall(c) == AllIdle /\ ToolCall(c, Requests)

\* exampleDataOperation is called directly; one such call at a time.
DirectCall(c) ==
  /\ AllIdle
  /\ \E input \in DirectInputs :
       calls' = [calls EXCEPT ![c] =
                   [ pc |-> "awaiting", name |-> "exampleDataOperation",
                     args |-> NoArgs, input |-> input, entered |-> TRUE,
                     outcome |-> Fulfilled, response |-> NoResponse,
                     fixture |-> NoFixture, overlap |-> FALSE ]]
  /\ UNCHANGED <<clock, faults, registry>>

\* A faulty Settled: the handler keeps its input in a variable shared by all
\* calls, so a call that resumes while another is suspended at its await
\* works on the input of that other call.
SettledShared(call, outcome, now) ==
  LET others == {d \in CallIds : calls[d].pc = "awaiting"
                                  /\ calls[d].name = call.name
                                  /\ calls[d].input # call.input}
      input == IF others = {} THEN call.input
               ELSE calls[CHOOSE d \in others : TRUE].input
  IN  [call EXCEPT
         !.pc = "done",
         !.outcome = outcome,
         !.response =
            IF call.name = "get_data" THEN getDataHandler(input, outcome, now)
            ELSE IF outcome.threw THEN Escaped(outcome.error)
            ELSE Returned(exampleDataOperation(input, now)),
         !.fixture = IF outcome.threw THEN NoFixture
                     ELSE FixtureAfter(input, now)]

\* formatResponse is called directly and returns or throws at once.  The
\* slot also records the console.error calls and the JSON.stringify calls
\* the call made.
FormatCall(c) ==
  /\ AllIdle
  /\ \E data \in FormatData, format \in FormatArgs :
       LET r == formatResponseAny(data, format)
       IN  calls' = [calls EXCEPT ![c] =
                       [ pc |-> "done", name |-> "formatResponse",
                         args |-> NoArgs,
                         input |-> [data |-> data, format |-> format],
                         entered |-> FALSE, outcome |-> Fulfilled,
                         response |-> IF r.threw THEN Escaped(r.value)
                                      ELSE Returned(r.value),
                         fixture |-> NoFixture, overlap |-> FALSE,
                         logged |-> r.logged, attempts |-> r.attempts ]]
  /\ UNCHANGED <<clock, faults, registry>>

\* The call in slot c once its awaited operation settles with outcome.
Settled(call, outcome, now) ==
  [call EXCEPT
     !.pc = "done",
     !.outcome = outcome,
     !.response =
        IF call.name = "get_data" THEN getDataHandler(call.input, outcome, now)
        ELSE IF outcome.threw THEN Escaped(outcome.error)
        ELSE Returned(exampleDataOperation(call.input, now)),
     !.fixture = IF outcome.threw THEN NoFixture
                 ELSE FixtureAfter(call.input, now)]

\* Another call is suspended at its await.
OthersAwaiting(c) == \E d \in CallIds \ {c} : calls[d].pc = "awaiting"

\* A faulty Resume: the calls share a lock taken in slot order, so a call
\* resumes only while no call in a lower slot is suspended.
ResumeLocked(c) ==
  /\ calls[c].pc = "awaiting"
  /\ \A d \in CallIds : d < c => calls[d].pc # "awaiting"
  /\ \E outcome \in {Fulfilled} \cup {Rejected(e) : e \in faults} :
       calls' = [calls EXCEPT ![c] =
                   [Settled(calls[c], outcome, clock) EXCEPT
                      !.overlap = OthersAwaiting(c)]]
  /\ UNCHANGED <<clock, faults, registry>>

\* The timer of the awaited delay fires and the call runs to its end.
Resume(c) ==
  /\ calls[c].pc = "awaiting"
  /\ \E outcome \in {Fulfilled} \cup {Rejected(e) : e \in faults} :
       calls' = [calls EXCEPT ![c] =
                   [Settled(calls[c], outcome, clock) EXCEPT
                      !.overlap = OthersAwaiting(c)]]
  /\ UNCHANGED <<clock, faults, registry>>

\* The response is handed to the caller and the slot is free again.
Deliver(c) ==
  /\ calls[c].pc = "done"
  /\ calls' = [calls EXCEPT ![c] = IdleCall]
  /\ UNCHANGED <<clock, faults, registry>>

\* What the dispatcher of the createServer server does with a request.
TestDispatch(req, now) ==
  IF ~TestIsRegistered(req.name)
     \/ ~(IF req.name = "get_data" THEN TestGetDataValid(req.args)
          ELSE TestSystemInfoValid(req.args))
  THEN RejectedCall(req)
  ELSE IF req.name = "get_data"
    THEN [AwaitingCall(req) EXCEPT !.input = TestGetDataInput(req.args)]
  ELSE [SystemInfoCall(req, now) EXCEPT
          !.input = TestSystemInfoInput(req.args),
          !.response = testGetSystemInfoHandler(TestSystemInfoInput(req.args), now)]

\* The suspended get_data call of the createServer server runs to its end.
TestSettled(call, outcome, now) ==
  [call EXCEPT
     !.pc = "done",
     !.outcome = outcome,
     !.response = testGetDataHandler(call.input, outcome, now),
     !.fixture = IF outcome.threw THEN NoFixture
                 ELSE FixtureAfter(call.input, now)]

\* The two slots that hold the same call sent to the server of server.ts
\* and to the server of createServer.
MainSlot == 1
TestSlot == 2

\* The same request reaches both servers at the same time.
TwinCall ==
  /\ AllIdle
  /\ \E req \in Requests :
       calls' = [calls EXCEPT ![MainSlot] = Dispatch(req, clock),
                              ![TestSlot] = TestDispatch(req, clock)]
  /\ UNCHANGED <<clock, faults, registry>>

\* The awaited operation of both calls settles the same way at the same time.
TwinResume ==
  /\ calls[MainSlot].pc = "awaiting" \/ calls[TestSlot].pc = "awaiting"
  /\ \E outcome \in {Fulfilled} \cup {Rejected(e) : e \in faults} :
       calls' = [calls EXCEPT
                   ![MainSlot] = IF @.pc = "awaiting"
                                 THEN Settled(@, outcome, clock) ELSE @,
                   ![TestSlot] = IF @.pc = "awaiting"
                                 THEN TestSettled(@, outcome, clock) ELSE @]
  /\ UNCHANGED <<clock, faults, registry>>

\* Both responses are collected.
TwinDeliver ==
  /\ calls[MainSlot].pc = "done" /\ calls[TestSlot].pc = "done"
  /\ calls' = [calls EXCEPT ![MainSlot] = IdleCall, ![TestSlot] = IdleCall]
  /\ UNCHANGED <<clock, faults, registry>>

Tick ==
  /\ clock < MaxClock
  /\ clock' = clock + 1
  /\ UNCHANGED <<calls, faults, registry>>

Next ==
  \/ \E c \in CallIds : SeqToolCall(c)
  \/ \E c \in CallIds : Resume(c)
  \/ \E c \in CallIds : Deliver(c)
  \/ Tick

NextConc ==
  \/ \E c \in CallIds : ToolCall(c, ConcRequests)
  \/ \E c \in CallIds : Resume(c)
  \/ \E c \in CallIds : Deliver(c)
  \/ Tick

NextOp ==
  \/ \E c \in CallIds : DirectCall(c)
  \/ \E c \in CallIds : Resume(c)
  \/ \E c \in CallIds : Deliver(c)
  \/ Tick

\* Tool calls and direct calls, one at a time (the test suite's process).
NextAll ==
  \/ \E c \in CallIds : SeqToolCall(c)
  \/ \E c \in CallIds : DirectCall(c)
  \/ \E c \in CallIds : Resume(c)
  \/ \E c \in CallIds : Deliver(c)
  \/ Tick

NextFmt ==
  \/ \E c \in CallIds : FormatCall(c)
  \/ \E c \in CallIds : Deliver(c)

NextLive ==
  \/ \E c \in CallIds : ToolCall(c, LiveRequests)
  \/ \E c \in CallIds : Resume(c)
  \/ \E c \in CallIds : Deliver(c)
  \/ Tick

\* The timer a call awaits fires: a call that stays suspended is resumed.
TimersFire == \A c \in CallIds : WF_vars(Resume(c))

NextTwin == TwinCall \/ TwinResume \/ TwinDeliver \/ Tick

\* The server, its client sending one request at a time.
Spec == Init /\ [][Next]_vars
\* The server with several calls in flight at once.
SpecConc == Init /\ [][NextConc]_vars
\* The server over a data source that can fail.
SpecFault == InitFault /\ [][Next]_vars
\* exampleDataOperation called directly.
SpecOp == Init /\ [][NextOp]_vars
\* The server and direct calls of exampleDataOperation in one process.
SpecAll == Init /\ [][NextAll]_vars
\* formatResponse called directly.
SpecFmt == Init /\ [][NextFmt]_vars
\* The servers of server.ts and of createServer given the same requests,
\* over a data source that can fail.
SpecTwin == InitFault /\ [][NextTwin]_vars
\* The server with several calls in flight, every timer firing.
SpecLive == Init /\ [][NextLive]_vars /\ TimersFire

---------------------------------------------------------------------------
(* Vocabulary of the properties *)

\* Slot c holds a finished direct call of exampleDataOperation.
DirectDone(c) ==
  /\ calls[c].pc = "done"
  /\ calls[c].name = "exampleDataOperation"
  /\ calls[c].response.kind = "value"

ResultOf(c) == calls[c].response.value

\* Slot c holds a get_data call that ended with a JSON document.
JsonDone(c) ==
  /\ calls[c].pc = "done"
  /\ calls[c].name = "get_data"
  /\ calls[c].response.kind = "result"
  /\ calls[c].response.content[1].text.form = "json"

JsonOf(c) == calls[c].response.content[1].text.value

ToUpperChar(ch) ==
  IF \E i \in 1..Len(LowerChars) : LowerChars[i] = ch
  THEN UpperChars[CHOOSE i \in 1..Len(LowerChars) : LowerChars[i] = ch]
  ELSE ch

\* F occurs in field, letters compared without regard to case.
ContainsNoCase(field, F) ==
  \E i \in 0..(Len(field) - Len(F)) :
    \A j \in 1..Len(F) : ToUpperChar(field[i + j]) = ToUpperChar(F[j])

\* The item has F in its title, description or category.
HasText(item, F) ==
  \/ ContainsNoCase(item.title, F)
  \/ ContainsNoCase(item.description, F)
  \/ ContainsNoCase(item.category, F)

FixtureIds == {allItems[i].id : i \in 1..Len(allItems)}
Fixture(id) == allItems[CHOOSE i \in 1..Len(allItems) : allItems[i].id = id]

\* The fixture items a filter value selects: all of them when it is absent.
Matching(filter) ==
  IF filter.t = "string"
  THEN {i \in 1..Len(allItems) : HasText(allItems[i], filter.v)}
  ELSE 1..Len(allItems)

InLimitRange(h) == h >= Int2Num(MinLimit) /\ h <= Int2Num(MaxLimit)

---------------------------------------------------------------------------
(* Properties *)

\* C1: for a limit L in [1,100], whatever the filter and includeMetadata,
\* exampleDataOperation returns at most L items.
C1_AtMostLimit ==
  \A c \in CallIds :
    (DirectDone(c) /\ InLimitRange(calls[c].input.limit))
      => Int2Num(Len(ResultOf(c).items)) <= calls[c].input.limit

\* A call with limit 2 and no filter was cut from three items to two.
C1_Witness ==
  \E c \in CallIds :
    /\ DirectDone(c)
    /\ calls[c].input.limit = Int2Num(2)
    /\ calls[c].input.filter = Undefined
    /\ Len(ResultOf(c).items) = 2
    /\ ResultOf(c).totalFound = 3

\* C2: with a filter string F, every returned item has F, case ignored, in
\* its title, description or category, and no fixture item lacking F in all
\* three is returned.
C2_FilterSound ==
  \A c \in CallIds :
    (DirectDone(c) /\ calls[c].input.filter.t = "string")
      => LET F == calls[c].input.filter.v
             items == ResultOf(c).items
         IN  /\ \A i \in 1..Len(items) : HasText(items[i], F)
             /\ \A id \in FixtureIds :
                  ~HasText(Fixture(id), F)
                    => \A i \in 1..Len(items) : items[i].id # id

\* A mixed-case filter kept two items and left the third out.
C2_Witness ==
  \E c \in CallIds :
    /\ DirectDone(c)
    /\ calls[c].input.filter = Str(<<"D", "e", "M", "o">>)
    /\ calls[c].input.limit = Int2Num(MaxLimit)
    /\ Len(ResultOf(c).items) = 2
    /\ \A i \in 1..2 : ResultOf(c).items[i].id # "3"

\* C3: totalFound is the number of fixture items matching the filter before
\* truncation; it depends on the filter only, not on the limit.
C3_TotalFound ==
  \A c \in CallIds :
    DirectDone(c)
      => ResultOf(c).totalFound = Cardinality(Matching(calls[c].input.filter))

\* A call that returned fewer items than it found.
C3_Witness ==
  \E c \in CallIds :
    /\ DirectDone(c)
    /\ calls[c].input.filter = Str(<<"d", "e", "m", "o">>)
    /\ calls[c].input.limit = Int2Num(1)
    /\ Len(ResultOf(c).items) = 1
    /\ ResultOf(c).totalFound = 2

\* The get_data call of the example: limit 2, filter "sample".
IsExampleCall(c) ==
  /\ JsonDone(c)
  /\ calls[c].args.limit = Number(Int2Num(2))
  /\ calls[c].args.filter = Str(Sample)

\* C4 as stated: get_data with limit 2 and filter "sample" yields at most 2
\* items and totalFound = 2 (two fixture items containing "sample").
C4_AsStated ==
  \A c \in CallIds :
    IsExampleCall(c)
      => Len(JsonOf(c).items) <= 2 /\ JsonOf(c).totalFound = 2

\* C4 amended: all three fixture items contain "sample" (each description
\* does), so the call yields exactly 2 items and totalFound = 3.
C4_Example ==
  \A c \in CallIds :
    IsExampleCall(c)
      => /\ Len(JsonOf(c).items) = 2
         /\ JsonOf(c).totalFound = 3
         /\ Cardinality(Matching(Str(Sample))) = 3

C4_Witness ==
  \E c \in CallIds :
    /\ IsExampleCall(c)
    /\ JsonOf(c).items[1].id = "1"
    /\ JsonOf(c).items[2].id = "2"

\* C5: a get_data call whose limit is a number outside [1,100] is refused
\* before the handler runs: exampleDataOperation is never entered for it and
\* it gets no items/totalFound output.
C5_OutOfRangeRejected ==
  \A c \in CallIds :
    ( /\ calls[c].name = "get_data"
      /\ calls[c].args.limit.t = "number"
      /\ ~InLimitRange(calls[c].args.limit.v) )
      => /\ ~calls[c].entered
         /\ calls[c].pc = "done"
         /\ calls[c].response.kind # "result"
         /\ calls[c].response = ProtocolError

\* A call with limit -1, its other arguments valid, was refused.
C5_Witness ==
  \E c \in CallIds :
    /\ calls[c].name = "get_data"
    /\ calls[c].args.limit = Number(Int2Num(-1))
    /\ calls[c].args.filter = Str(Sample)
    /\ calls[c].args.includeMetadata = Bool(TRUE)
    /\ calls[c].args.outputMode = Undefined
    /\ calls[c].response = ProtocolError

\* Slot c holds a tool call whose awaited data operation raised.
Raised(c) == calls[c].pc = "done" /\ calls[c].outcome.threw

\* C6: if a handler raises, the call returns an envelope with one text block
\* whose text is "Error: " followed by the raised message, or by the generic
\* fallback phrase when the raised value carries no message (is no Error).
C6_ErrorEnvelope ==
  \A c \in CallIds :
    Raised(c)
      => LET r == calls[c].response
             e == calls[c].outcome.error
         IN  /\ r.kind = "result"
             /\ Len(r.content) = 1
             /\ r.content[1].type = "text"
             /\ r.content[1].text.form = "plain"
             /\ r.content[1].text.lines =
                  IF e.isError THEN <<"Error: " \o e.message>>
                  ELSE <<"Error: Unknown error occurred">>

\* The data operation rejected with a value that is no Error and the call
\* returned the fallback text.
C6_Witness ==
  \E c \in CallIds :
    /\ Raised(c) /\ calls[c].outcome.error = NonError
    /\ calls[c].response.content[1].text.lines = <<"Error: Unknown error occurred">>

\* The declared schema of the tool named by slot c accepts its arguments.
SchemaValid(c) ==
  LET a == calls[c].args
  IN  \/ /\ calls[c].name = "get_data"
         /\ \/ a.limit = Undefined
            \/ a.limit.t = "number" /\ InLimitRange(a.limit.v)
         /\ a.filter.t \in {"undefined", "string"}
         /\ a.includeMetadata.t \in {"undefined", "boolean"}
         /\ a.outputMode \in {Undefined, Str("json"), Str("compact-json")}
      \/ /\ calls[c].name = "get_system_info"
         /\ a.info \in {Undefined, Str("date"), Str("timezone"), Str("version"),
                        Str("all")}

\* C7: for both registered tools and every schema-valid argument set, no
\* exception leaves the handler: a failure in the handler body comes back
\* as a text envelope.
C7_NothingEscapes ==
  \A c \in CallIds :
    (calls[c].pc = "done" /\ SchemaValid(c))
      => /\ calls[c].response.kind = "result"
         /\ calls[c].response.content[1].type = "text"

\* A schema-valid get_data call whose data operation raised ended with an
\* envelope.
C7_Witness ==
  \E c \in CallIds :
    /\ Raised(c) /\ calls[c].name = "get_data" /\ SchemaValid(c)
    /\ calls[c].outcome.error = JsError("")
    /\ calls[c].response.kind = "result"

\* C8: a call that fails before any handler runs (an argument violating its
\* type, bounds or enum, or an unknown tool name) gets a protocol-level
\* error and no result envelope; an exception raised inside a handler gets
\* a result envelope whose text is "Error: <message>".
C8_TwoErrorChannels ==
  \A c \in CallIds :
    calls[c].pc = "done"
      => /\ (calls[c].name # "exampleDataOperation" /\ ~SchemaValid(c))
              => (calls[c].response.kind = "error" /\ ~calls[c].entered)
         /\ calls[c].outcome.threw
              => /\ calls[c].response.kind = "result"
                 /\ \E m \in {calls[c].outcome.error.message, "Unknown error occurred"} :
                      calls[c].response.content[1].text = PlainText(<<"Error: " \o m>>)

\* A call of a tool that is not registered got a protocol error and no
\* envelope, under a data source whose failures come back as envelopes.
C8_Witness ==
  \E c \in CallIds :
    /\ calls[c].pc = "done"
    /\ calls[c].name = "nonexistent_tool"
    /\ calls[c].response = ProtocolError
    /\ faults # {}

\* C9: with includeMetadata false no returned item has processingTime or
\* source in its metadata, and each returned item's metadata is that of the
\* fixture item it came from.
C9_NoMetadataAdded ==
  \A c \in CallIds :
    (DirectDone(c) /\ ~calls[c].input.includeMetadata)
      => \A i \in 1..Len(ResultOf(c).items) :
           LET it == ResultOf(c).items[i]
           IN  /\ it.metadata.def
                    => DOMAIN it.metadata.map \cap {"processingTime", "source"} = {}
               /\ it.metadata = Fixture(it.id).metadata

\* A call without metadata returned item 3, whose own metadata is its tags,
\* and item 1, which has none.
C9_Witness ==
  \E c \in CallIds :
    /\ DirectDone(c) /\ ~calls[c].input.includeMetadata
    /\ Len(ResultOf(c).items) = 3
    /\ ~ResultOf(c).items[1].metadata.def
    /\ DOMAIN ResultOf(c).items[3].metadata.map = {"tags"}

\* C10: with includeMetadata true every returned item has a metadata
\* mapping with processingTime and source = 'example-data-source', and
\* every key the fixture item's metadata had is kept with its value.
C10_MetadataAdded ==
  \A c \in CallIds :
    (DirectDone(c) /\ calls[c].input.includeMetadata)
      => \A i \in 1..Len(ResultOf(c).items) :
           LET it == ResultOf(c).items[i]
               old == Fixture(it.id).metadata
           IN  /\ it.metadata.def
               /\ {"processingTime", "source"} \subseteq DOMAIN it.metadata.map
               /\ it.metadata.map["source"] = "example-data-source"
               /\ old.def =>
                    \A k \in DOMAIN old.map :
                      /\ k \in DOMAIN it.metadata.map
                      /\ it.metadata.map[k] = old.map[k]

\* A call with metadata returned item 3 with its tags kept beside the two
\* added fields, and item 1 with the two added fields only.
C10_Witness ==
  \E c \in CallIds :
    /\ DirectDone(c) /\ calls[c].input.includeMetadata
    /\ Len(ResultOf(c).items) = 3
    /\ DOMAIN ResultOf(c).items[1].metadata.map = {"processingTime", "source"}
    /\ DOMAIN ResultOf(c).items[3].metadata.map = {"tags", "processingTime", "source"}
    /\ ResultOf(c).items[3].metadata.map["tags"] = <<"important", "featured">>

\* C11: the filters field of every exampleDataOperation result is the input
\* it was called with, unchanged; through get_data the echoed limit, filter
\* and includeMetadata are the values the caller supplied.
C11_FiltersEcho ==
  \A c \in CallIds :
    /\ DirectDone(c) => ResultOf(c).filters = calls[c].input
    /\ JsonDone(c) =>
         LET a == calls[c].args
             echo == JsonOf(c).filters
         IN  /\ a.limit.t = "number" => echo["limit"] = a.limit.v
             /\ a.filter.t = "string" =>
                  "filter" \in DOMAIN echo /\ echo["filter"] = a.filter.v
             /\ a.filter.t = "undefined" => "filter" \notin DOMAIN echo
             /\ a.includeMetadata.t = "boolean" =>
                  echo["includeMetadata"] = a.includeMetadata.v

\* A get_data call with limit 2.5, filter "DEMO" and includeMetadata true
\* echoed all three.
C11_Witness ==
  \E c \in CallIds :
    /\ JsonDone(c)
    /\ calls[c].args.limit = Number(5)
    /\ calls[c].args.filter = Str(<<"D", "E", "M", "O">>)
    /\ calls[c].args.includeMetadata = Bool(TRUE)
    /\ JsonOf(c).filters["limit"] = 5
    /\ JsonOf(c).filters["filter"] = <<"D", "E", "M", "O">>
    /\ JsonOf(c).filters["includeMetadata"] = TRUE

\* Slot c holds a finished get_system_info call that returned its text.
InfoDone(c) ==
  /\ calls[c].pc = "done"
  /\ calls[c].name = "get_system_info"
  /\ calls[c].response.kind = "result"

InfoLines(c) == calls[c].response.content[1].text.lines

\* What can follow a label on a line of the text.
LineValues ==
  {currentDate(t) : t \in 0..MaxClock} \cup {toISOString(t) : t \in 0..MaxClock}
    \cup {timezone, version}

\* The line is the label followed by a value.
Labelled(line, label) == \E v \in LineValues : line = label \o " " \o v

HasLabel(lines, label) == \E i \in 1..Len(lines) : Labelled(lines[i], label)

HandlerEntered(c) == calls[c].pc # "idle" /\ calls[c].input # NoInput

\* C15: an argument the caller omits reaches the handler as its declared
\* default: limit 10, includeMetadata false and outputMode 'json' for
\* get_data, info 'all' for get_system_info; an omitted filter stays absent.
C15_Defaults ==
  \A c \in CallIds :
    HandlerEntered(c) =>
      LET a == calls[c].args
          input == calls[c].input
      IN  /\ calls[c].name = "get_data" =>
               /\ a.limit = Undefined => input.limit = Int2Num(10)
               /\ a.includeMetadata = Undefined => input.includeMetadata = FALSE
               /\ a.outputMode = Undefined => input.outputMode = "json"
               /\ a.filter = Undefined => input.filter = Undefined
          /\ (calls[c].name = "get_system_info" /\ a.info = Undefined) =>
               input.info = "all"

\* A get_data call with no arguments at all is running with the defaults.
C15_Witness ==
  \E c \in CallIds :
    /\ calls[c].name = "get_data"
    /\ calls[c].args = NoArgs
    /\ calls[c].pc = "awaiting"
    /\ calls[c].input =
         [limit |-> 20, filter |-> Undefined, includeMetadata |-> FALSE,
          outputMode |-> "json"]

\* The names in the registry.
RegistryNames == {registry[i] : i \in 1..Len(registry)}

\* C16: the registry holds exactly two tools, get_data and get_system_info,
\* each registered once, in every state from startup on (the set of
\* registered tools never changes).
C16_TwoTools ==
  /\ Len(registry) = 2
  /\ RegistryNames = {"get_data", "get_system_info"}
  /\ \A i, j \in 1..Len(registry) : registry[i] = registry[j] => i = j

\* Calls of both tools and a refused call of an unregistered tool have been
\* served and the registry is as it was at startup.
C16_Witness ==
  /\ registry = <<"get_data", "get_system_info">>
  /\ \E c \in CallIds :
       /\ calls[c].pc = "done"
       /\ calls[c].name = "search_items"
       /\ calls[c].response = ProtocolError

\* C17: the server exposes the four example tools the README and the
\* changelog list (get_data, search_items, analyze_data, get_system_info):
\* all four are registered and a call of any of them reaches a handler
\* instead of being refused as an unknown tool.
C17_FourTools ==
  /\ {"get_data", "search_items", "analyze_data", "get_system_info"}
       \subseteq RegistryNames
  /\ \A c \in CallIds :
       (calls[c].pc = "done" /\ calls[c].args = NoArgs)
         => calls[c].response # ProtocolError

\* Slot c holds a data lookup that ran exampleDataOperation to its end.
LookupDone(c) ==
  /\ calls[c].pc = "done"
  /\ calls[c].name \in {"get_data", "exampleDataOperation"}
  /\ calls[c].entered
  /\ ~calls[c].outcome.threw

\* C18: no data lookup, whatever its arguments, changes the fixture list or a
\* fixture item (its metadata mapping included): when a call has finished,
\* the array it worked on is still the original three records, and every
\* call builds its array from those records.
C18_FixtureUnchanged ==
  \A c \in CallIds :
    /\ LookupDone(c) => calls[c].fixture = <<Item1, Item2, Item3>>
    /\ calls[c].fixture \in {NoFixture, <<Item1, Item2, Item3>>}

\* A lookup with includeMetadata true returned item 3 with the added keys
\* while the fixture's item 3 kept its one-key metadata.
C18_Witness ==
  \E c \in CallIds :
    /\ DirectDone(c)
    /\ calls[c].input.includeMetadata
    /\ Len(ResultOf(c).items) = 3
    /\ ResultOf(c).items[3].metadata # Item3.metadata
    /\ calls[c].fixture[3] = Item3

\* The calls in slots c and d were made with equal limit, filter and
\* includeMetadata.
SameLookupArgs(c, d) ==
  /\ calls[c].input.limit = calls[d].input.limit
  /\ calls[c].input.filter = calls[d].input.filter
  /\ calls[c].input.includeMetadata = calls[d].input.includeMetadata

\* A serialized item without the processingTime key of its metadata.
ItemButTime(item) ==
  IF "metadata" \in DOMAIN item
  THEN [item EXCEPT !["metadata"] =
          [k \in (DOMAIN item["metadata"]) \ {"processingTime"} |->
             item["metadata"][k]]]
  ELSE item

\* A serialized result without the processingTime values.
ResultButTime(doc) ==
  [doc EXCEPT !.items = [i \in 1..Len(doc.items) |-> ItemButTime(doc.items[i])]]

\* C19 as stated: the data-lookup result is a pure function of its arguments
\* and the static fixture: two calls with equal limit, filter and
\* includeMetadata, made at any times and after any other calls, return equal
\* results.
C19_AsStated ==
  \A c, d \in CallIds :
    (JsonDone(c) /\ JsonDone(d) /\ SameLookupArgs(c, d))
      => JsonOf(c) = JsonOf(d)

\* C19 amended: two calls with equal limit, filter and includeMetadata return
\* results that are equal except for the processingTime values, which are
\* the clock readings of the calls; with includeMetadata false the results
\* are equal.
C19_EqualButTime ==
  \A c, d \in CallIds :
    (JsonDone(c) /\ JsonDone(d) /\ SameLookupArgs(c, d))
      => /\ ResultButTime(JsonOf(c)) = ResultButTime(JsonOf(d))
         /\ ~calls[c].input.includeMetadata => JsonOf(c) = JsonOf(d)

\* Two calls with the same arguments and includeMetadata true, resumed at
\* different clock readings, differ in processingTime and in nothing else.
C19_Witness ==
  \E c, d \in CallIds :
    /\ c # d
    /\ JsonDone(c) /\ JsonDone(d) /\ SameLookupArgs(c, d)
    /\ calls[c].input.includeMetadata
    /\ JsonOf(c) # JsonOf(d)
    /\ JsonOf(c).items[1]["metadata"]["processingTime"]
         # JsonOf(d).items[1]["metadata"]["processingTime"]
    /\ ResultButTime(JsonOf(c)) = ResultButTime(JsonOf(d))

\* The number of matching fixture items up to position i.
RankIn(m, i) == Cardinality({j \in m : j <= i})

\* What a get_data call with this input returns when it runs alone: the
\* count of the matching items, the first trunc(limit) of them in fixture
\* order, processingTime on each exactly when includeMetadata is set, and
\* the input echoed.
AloneResult(doc, input) ==
  LET m == Matching(input.filter)
      k == Min(ToInteger(input.limit), Cardinality(m))
  IN  /\ doc.totalFound = Cardinality(m)
      /\ Len(doc.items) = k
      /\ \A p \in 1..k :
           \E i \in m :
             /\ RankIn(m, i) = p
             /\ doc.items[p]["id"] = allItems[i].id
             /\ doc.items[p]["title"] = allItems[i].title
             /\ input.includeMetadata <=>
                  /\ "metadata" \in DOMAIN doc.items[p]
                  /\ "processingTime" \in DOMAIN doc.items[p]["metadata"]
      /\ doc.filters["limit"] = input.limit
      /\ doc.filters["includeMetadata"] = input.includeMetadata
      /\ IF input.filter.t = "string"
         THEN "filter" \in DOMAIN doc.filters
              /\ doc.filters["filter"] = input.filter.v
         ELSE "filter" \notin DOMAIN doc.filters

\* C20: when several tool calls are in flight at once and interleave at the
\* handler's awaited delay, the items, totalFound and filters of each call
\* are those the same call returns when it runs alone: no interleaving lets
\* a call observe or alter the data of another.
C20_Isolation ==
  \A c \in CallIds : JsonDone(c) => AloneResult(JsonOf(c), calls[c].input)

\* Two calls with different arguments were suspended at the await together;
\* both have finished, each with its own result.
C20_Witness ==
  \E c, d \in CallIds :
    /\ c # d
    /\ JsonDone(c) /\ JsonDone(d)
    /\ calls[c].overlap
    /\ calls[c].input.filter = Undefined
    /\ calls[d].input.filter = Str(<<"d", "e", "m", "o">>)
    /\ JsonOf(c).totalFound = 3
    /\ JsonOf(d).totalFound = 2
    /\ Len(JsonOf(c).items) = 3
    /\ Len(JsonOf(d).items) = 2

\* Slot c holds a finished direct call of formatResponse.
FormatDone(c) == calls[c].pc = "done" /\ calls[c].name = "formatResponse"

\* The call returned a string.
FormatReturned(c) ==
  /\ FormatDone(c)
  /\ calls[c].response.kind = "value"
  /\ calls[c].response.value.t = "string"

FormatText(c) == calls[c].response.value.v

RECURSIVE JsonSerializable(_)
\* The value is made of null, booleans, numbers, strings, arrays and objects
\* only, no object having a key twice.
JsonSerializable(x) ==
  IF x.t \in {"null", "boolean", "number", "string"} THEN TRUE
  ELSE IF x.t = "array" THEN \A i \in 1..Len(x.v) : JsonSerializable(x.v[i])
  ELSE IF x.t = "object"
    THEN /\ \A i \in 1..Len(x.v) : JsonSerializable(x.v[i].v)
         /\ \A i, j \in 1..Len(x.v) : x.v[i].k = x.v[j].k => i = j
  ELSE FALSE

(* JSON.parse *)

ParseFail == [ok |-> FALSE]
Parsed(v, next) == [ok |-> TRUE, v |-> v, next |-> next]
WhiteSpace == {" ", "\n", "\t", "\r"}
IsDigit(ch) == \E d \in 1..10 : DigitChars[d] = ch
DigitValue(ch) == (CHOOSE d \in 1..10 : DigitChars[d] = ch) - 1

RECURSIVE SkipWs(_, _)
\* The first position from i on that holds no white space.
SkipWs(s, i) ==
  IF i <= Len(s) /\ s[i] \in WhiteSpace THEN SkipWs(s, i + 1) ELSE i

RECURSIVE ParseChars(_, _, _)
\* The characters of a string literal whose opening quote precedes i.
ParseChars(s, i, acc) ==
  IF i > Len(s) THEN ParseFail
  ELSE IF s[i] = "\"" THEN Parsed(acc, i + 1)
  ELSE IF s[i] = "\\"
    THEN IF i + 1 > Len(s) THEN ParseFail
         ELSE IF s[i + 1] = "n" THEN ParseChars(s, i + 2, Append(acc, "\n"))
         ELSE IF s[i + 1] \in {"\"", "\\", "/"}
           THEN ParseChars(s, i + 2, Append(acc, s[i + 1]))
         ELSE ParseFail
  ELSE IF s[i] \in {"\n", "\t", "\r"} THEN ParseFail
  ELSE ParseChars(s, i + 1, Append(acc, s[i]))

RECURSIVE ParseDigits(_, _, _)
\* The natural number whose digits start at i, acc being the digits read.
ParseDigits(s, i, acc) ==
  IF i <= Len(s) /\ IsDigit(s[i])
  THEN ParseDigits(s, i + 1, 10 * acc + DigitValue(s[i]))
  ELSE Parsed(acc, i)

\* A number literal: sign, integer part and, of fractions, ".5" or ".0".
ParseNumber(s, i) ==
  LET neg == s[i] = "-"
      j == IF neg THEN i + 1 ELSE i
  IN  IF j > Len(s) \/ ~IsDigit(s[j]) THEN ParseFail
      ELSE LET n == ParseDigits(s, j, 0)
               frac == n.next + 1 <= Len(s) /\ s[n.next] = "."
                       /\ s[n.next + 1] \in {"0", "5"}
                       /\ (n.next + 2 > Len(s) \/ ~IsDigit(s[n.next + 2]))
               dot == n.next <= Len(s) /\ s[n.next] = "."
               half == IF frac /\ s[n.next + 1] = "5" THEN 1 ELSE 0
               h == 2 * n.v + half
           IN  IF dot /\ ~frac THEN ParseFail
               ELSE Parsed(Number(IF neg THEN -h ELSE h),
                           IF frac THEN n.next + 2 ELSE n.next)

\* The characters of lit stand at position i.
StartsAt(s, i, lit) ==
  /\ i + Len(lit) - 1 <= Len(s)
  /\ \A j \in 1..Len(lit) : s[i + j - 1] = lit[j]

RECURSIVE ParseValue(_, _)
RECURSIVE ParseElements(_, _, _)
RECURSIVE ParseMembers(_, _, _)

ParseValue(s, start) ==
  LET i == SkipWs(s, start)
  IN  IF i > Len(s) THEN ParseFail
      ELSE IF s[i] = "\""
        THEN LET r == ParseChars(s, i + 1, <<>>)
             IN  IF r.ok THEN Parsed(Str(r.v), r.next) ELSE ParseFail
      ELSE IF s[i] = "["
        THEN LET j == SkipWs(s, i + 1)
             IN  IF j <= Len(s) /\ s[j] = "]" THEN Parsed(Arr(<<>>), j + 1)
                 ELSE ParseElements(s, j, <<>>)
      ELSE IF s[i] = "{"
        THEN LET j == SkipWs(s, i + 1)
             IN  IF j <= Len(s) /\ s[j] = "}" THEN Parsed(Obj(<<>>), j + 1)
                 ELSE ParseMembers(s, j, <<>>)
      ELSE IF StartsAt(s, i, <<"n", "u", "l", "l">>) THEN Parsed(Null, i + 4)
      ELSE IF StartsAt(s, i, <<"t", "r", "u", "e">>) THEN Parsed(Bool(TRUE), i + 4)
      ELSE IF StartsAt(s, i, <<"f", "a", "l", "s", "e">>)
        THEN Parsed(Bool(FALSE), i + 5)
      ELSE IF s[i] = "-" \/ IsDigit(s[i]) THEN ParseNumber(s, i)
      ELSE ParseFail

\* The elements of an array from i on, acc being those read.
ParseElements(s, i, acc) ==
  LET r == ParseValue(s, i)
  IN  IF ~r.ok THEN ParseFail
      ELSE LET j == SkipWs(s, r.next)
           IN  IF j > Len(s) THEN ParseFail
               ELSE IF s[j] = "," THEN ParseElements(s, j + 1, Append(acc, r.v))
               ELSE IF s[j] = "]" THEN Parsed(Arr(Append(acc, r.v)), j + 1)
               ELSE ParseFail

\* The members of an object from i on, acc being those read.
ParseMembers(s, i, acc) ==
  LET k == SkipWs(s, i)
  IN  IF k > Len(s) \/ s[k] # "\"" THEN ParseFail
      ELSE LET key == ParseChars(s, k + 1, <<>>)
           IN  IF ~key.ok THEN ParseFail
               ELSE LET c == SkipWs(s, key.next)
                    IN  IF c > Len(s) \/ s[c] # ":" THEN ParseFail
                        ELSE LET r == ParseValue(s, c + 1)
                                 j == SkipWs(s, r.next)
                                 props == Append(acc, Prop(key.v, r.v))
                             IN  IF ~r.ok THEN ParseFail
                                 ELSE IF j > Len(s) THEN ParseFail
                                 ELSE IF s[j] = ","
                                   THEN ParseMembers(s, j + 1, props)
                                 ELSE IF s[j] = "}"
                                   THEN Parsed(Obj(props), j + 1)
                                 ELSE ParseFail

SyntaxError == [t |-> "SyntaxError"]

\* JSON.parse(text): the value, or a SyntaxError.
JSONparse(s) ==
  LET r == ParseValue(s, 1)
  IN  IF r.ok /\ SkipWs(s, r.next) > Len(s) THEN r.v ELSE SyntaxError

(* The layout of a JSON text *)

\* The number of backslashes that stand immediately before position i.
BackslashesBefore(s, i) ==
  CHOOSE k \in 0..(i - 1) :
    /\ \A j \in 1..k : s[i - j] = "\\"
    /\ (k = i - 1 \/ s[i - k - 1] # "\\")

\* The positions of the quotes that open or close a string literal: those
\* not escaped by a backslash.
QuotePositions(s) ==
  {i \in 1..Len(s) : s[i] = "\"" /\ BackslashesBefore(s, i) % 2 = 0}

\* For each position, whether its character stands outside every string
\* literal (the quotes of a literal are inside it).
StructFlags(s) ==
  LET Q == QuotePositions(s)
  IN  [i \in 1..Len(s) |->
         i \notin Q /\ Cardinality({q \in Q : q < i}) % 2 = 0]

Openers == {"[", "{"}
Closers == {"]", "}"}

\* No white space outside the string literals.
CompactLayout(s) ==
  LET f == StructFlags(s)
  IN  \A i \in 1..Len(s) : f[i] => s[i] \notin WhiteSpace

RECURSIVE NextNonSpace(_, _)
\* The first position after i that holds no space (Len(s) + 1 if none).
NextNonSpace(s, i) ==
  IF i + 1 <= Len(s) /\ s[i + 1] = " " THEN NextNonSpace(s, i + 1) ELSE i + 1

RECURSIVE PrevNonSpace(_, _)
\* The last position before i that holds no space (0 if none).
PrevNonSpace(s, i) ==
  IF i - 1 >= 1 /\ s[i - 1] = " " THEN PrevNonSpace(s, i - 1) ELSE i - 1

\* The text is laid out with an indentation of two spaces per nesting level:
\* every element and every closing bracket of a non-empty array or object is
\* on a line of its own, indented by twice its depth; a key is followed by
\* a colon and one space; there is no other white space outside the string
\* literals.
PrettyLayout(s) ==
  LET f == StructFlags(s)
      n == Len(s)
      Opens(j) == Cardinality({k \in 1..(j - 1) : f[k] /\ s[k] \in Openers})
      Closes(j) == Cardinality({k \in 1..(j - 1) : f[k] /\ s[k] \in Closers})
      \* the nesting depth of what stands at j
      Depth(j) == Opens(j) - Closes(j) - (IF s[j] \in Closers THEN 1 ELSE 0)
      AfterBreak(i) == LET p == PrevNonSpace(s, i)
                       IN  p >= 1 /\ f[p] /\ s[p] = "\n"
  IN  \A i \in 1..n :
        f[i] =>
          /\ s[i] \notin {"\t", "\r"}
          /\ s[i] = "\n" =>
               LET j == NextNonSpace(s, i)
               IN  j <= n /\ s[j] # "\n" /\ j - i - 1 = 2 * Depth(j)
          /\ s[i] = " " =>
               \/ AfterBreak(i)
               \/ i > 1 /\ f[i - 1] /\ s[i - 1] = ":" /\ i < n /\ s[i + 1] # " "
          /\ s[i] = ":" => i < n /\ s[i + 1] = " "
          /\ s[i] = "," => i < n /\ s[i + 1] = "\n"
          /\ s[i] \in Openers =>
               i < n /\ (s[i + 1] = "\n" \/ s[i + 1] \in Closers)
          /\ s[i] \in Closers =>
               i > 1 /\ ((f[i - 1] /\ s[i - 1] \in Openers) \/ AfterBreak(i))

\* C12: for every JSON-serializable value x, formatResponse(x, 'compact-json')
\* is JSON with no inserted white space, formatResponse(x, 'json') and
\* formatResponse(x) are the JSON indented by two spaces, and parsing either
\* output gives a value equal to x.
C12_RoundTrip ==
  \A c \in CallIds :
    (FormatDone(c) /\ JsonSerializable(calls[c].input.data)) =>
      /\ FormatReturned(c)
      /\ IF calls[c].input.format = Str("compact-json")
         THEN CompactLayout(FormatText(c))
         ELSE PrettyLayout(FormatText(c))
      /\ JSONparse(FormatText(c)) = calls[c].input.data

\* An object holding an array of objects was formatted without a format
\* argument: the text has line breaks and parses back to the object.
C12_Witness ==
  \E c \in CallIds :
    /\ FormatReturned(c)
    /\ calls[c].input.format = Undefined
    /\ calls[c].input.data.t = "object"
    /\ Len(calls[c].input.data.v) = 2
    /\ calls[c].input.data.v[1].v.t = "array"
    /\ calls[c].input.data.v[1].v.v[1].t = "object"
    /\ Len(calls[c].input.data.v[1].v.v[1].v) = 2
    /\ \E i \in 1..Len(FormatText(c)) : FormatText(c)[i] = "\n"
    /\ ~CompactLayout(FormatText(c))
    /\ JSONparse(FormatText(c)) = calls[c].input.data

\* The gap of the first JSON.stringify call of the call in slot c.
FirstGap(c) == IF calls[c].input.format = Str("compact-json") THEN 0 ELSE 2

\* C13: if serialization fails inside formatResponse, in either mode, it logs
\* the failure and makes exactly one further attempt, a pretty serialization
\* of the same value; the result of that attempt is returned, and if it
\* fails too the error propagates out of formatResponse to its caller.
C13_OneFallback ==
  \A c \in CallIds :
    FormatDone(c) =>
      LET data == calls[c].input.data
      IN  IF Throws(data, 1)
          THEN /\ calls[c].logged = 1
               /\ calls[c].attempts = <<FirstGap(c), 2>>
               /\ IF Throws(data, 2)
                  THEN calls[c].response = Escaped(TypeError)
                  ELSE /\ FormatReturned(c)
                       /\ PrettyLayout(FormatText(c))
                       /\ calls[c].response.value = JSONstringify(data, 2)
          ELSE /\ calls[c].logged = 0
               /\ calls[c].attempts = <<FirstGap(c)>>
               /\ calls[c].response.kind = "value"

\* A compact serialization failed once: the failure was logged and the pretty
\* serialization that followed was returned.
C13_Witness ==
  \E c \in CallIds :
    /\ FormatReturned(c)
    /\ calls[c].input.format = Str("compact-json")
    /\ calls[c].input.data = Flaky(1, Arr(<<Number(5), Null>>))
    /\ calls[c].logged = 1
    /\ calls[c].attempts = <<0, 2>>
    /\ FormatText(c) = <<"[", "\n", " ", " ", "2", ".", "5", ",", "\n",
                         " ", " ", "n", "u", "l", "l", "\n", "]">>

\* The number h/2 is an integer.
IsInteger(h) == h % 2 = 0

\* C21: a limit reaches the get_data handler only if it is an integer in the
\* inclusive range 1..100; a call whose limit is a non-integer number such
\* as 2.5 is refused before the handler runs, like an out-of-range one.
C21_IntegerLimit ==
  \A c \in CallIds :
    /\ (calls[c].name = "get_data" /\ calls[c].entered) =>
         /\ IsInteger(calls[c].input.limit)
         /\ InLimitRange(calls[c].input.limit)
    /\ ( /\ calls[c].name = "get_data"
         /\ calls[c].args.limit.t = "number"
         /\ ~IsInteger(calls[c].args.limit.v) )
         => ~calls[c].entered /\ calls[c].response = ProtocolError

\* The result counts the whole fixture and its items are the first ones of
\* the fixture, as many as the limit allows when it is in [1,100].
WholeFixture(result, limit) ==
  /\ result.totalFound = 3
  /\ Len(result.items) <= 3
  /\ \A i \in 1..Len(result.items) : result.items[i].id = allItems[i].id
  /\ InLimitRange(limit) => Len(result.items) = Min(ToInteger(limit), 3)

\* C22 as stated: with the filter absent the whole fixture matches
\* (totalFound is 3 and items is non-empty for every limit in [1,100]), and
\* a call with the empty string as filter returns the same result as the
\* call without a filter.
C22_AsStated ==
  \A c \in CallIds :
    DirectDone(c) =>
      /\ (calls[c].input.filter = Undefined /\ InLimitRange(calls[c].input.limit))
           => ResultOf(c).totalFound = 3 /\ Len(ResultOf(c).items) > 0
      /\ calls[c].input.filter = Str(<<>>) =>
           \E t \in 0..MaxClock :
             ResultOf(c) =
               exampleDataOperation([calls[c].input EXCEPT !.filter = Undefined], t)

\* C22 amended: with the filter absent or the empty string the whole fixture
\* matches: totalFound is 3 and the items are the first ones of the fixture,
\* at least one for every limit in [1,100]; the two results differ only in
\* the echoed filter, which is the empty string when that was passed.
C22_NoFilter ==
  \A c \in CallIds :
    (DirectDone(c) /\ calls[c].input.filter \in {Undefined, Str(<<>>)}) =>
      /\ WholeFixture(ResultOf(c), calls[c].input.limit)
      /\ InLimitRange(calls[c].input.limit) => Len(ResultOf(c).items) > 0
      /\ ResultOf(c).filters.filter = calls[c].input.filter

\* A call with the empty string as filter and limit 2.5 returned items 1 and
\* 2 of 3 found, and echoed the empty string.
C22_Witness ==
  \E c \in CallIds :
    /\ DirectDone(c)
    /\ calls[c].input.filter = Str(<<>>)
    /\ calls[c].input.limit = 5
    /\ ResultOf(c).totalFound = 3
    /\ Len(ResultOf(c).items) = 2
    /\ ResultOf(c).items[2].id = "2"
    /\ ResultOf(c).filters.filter = Str(<<>>)

\* The call in slot c has entered its handler and is suspended at its await.
Suspended(c) == calls[c].pc = "awaiting"

\* The call in slot c has completed with an envelope.
Completed(c) == calls[c].pc = "done" /\ calls[c].response.kind = "result"

\* C23: every schema-valid tool call that starts eventually completes with
\* an envelope once its awaited delay resolves; a suspended call can always
\* resume, whatever the other calls in flight are doing, so no started call
\* waits forever.
C23_Completes ==
  /\ \A c \in CallIds : Suspended(c) ~> Completed(c)
  /\ [](\A c \in CallIds : Suspended(c) => ENABLED Resume(c))

\* A call that resumed while another call was suspended has completed with
\* an envelope, and the other call is still suspended.
C23_Witness ==
  \E c, d \in CallIds :
    /\ c # d
    /\ Completed(c)
    /\ calls[c].entered
    /\ calls[c].overlap
    /\ Suspended(d)


\* C24: the server createServer() builds is equivalent to the one of
\* server.ts: it registers the same tool names in the same order, and a
\* request sent to both is accepted or rejected by both alike, parsed to the
\* same input (same constraints, same defaults), suspended and completed
\* alike, and answered with the same envelope.
C24_Equivalent ==
  /\ registry = TestRegisteredTools
  /\ calls[MainSlot].pc = calls[TestSlot].pc
  /\ calls[MainSlot].entered = calls[TestSlot].entered
  /\ calls[MainSlot].input = calls[TestSlot].input
  /\ calls[MainSlot].response = calls[TestSlot].response

\* Both servers have answered the same get_data call that passed an explicit
\* limit above 50, with the same envelope.
C24_Witness ==
  /\ calls[MainSlot].pc = "done" /\ calls[TestSlot].pc = "done"
  /\ calls[MainSlot].name = "get_data"
  /\ calls[MainSlot].args = calls[TestSlot].args
  /\ calls[MainSlot].args.limit.t = "number"
  /\ calls[MainSlot].args.limit.v > Int2Num(50)
  /\ calls[TestSlot].entered
  /\ calls[TestSlot].response.kind = "result"
  /\ calls[TestSlot].response = calls[MainSlot].response

\* The item has the six fields of the fixture item, with the fixture's values.
SameFields(item, fixtureItem) ==
  /\ item["id"] = fixtureItem.id
  /\ item["title"] = fixtureItem.title
  /\ item["description"] = fixtureItem.description
  /\ item["category"] = fixtureItem.category
  /\ item["createdAt"] = fixtureItem.createdAt
  /\ item["updatedAt"] = fixtureItem.updatedAt

\* C25: for a limit in [1,100], the items exampleDataOperation returns are
\* the first min(limit, totalFound) matching fixture items in fixture order:
\* their number is min(limit, totalFound), and the p-th returned item is the
\* p-th matching fixture item (so ids ascend, nothing is repeated or
\* reordered), with id, title, description, category, createdAt and
\* updatedAt equal to the fixture's.
C25_FirstMatching ==
  \A c \in CallIds :
    (DirectDone(c) /\ InLimitRange(calls[c].input.limit)) =>
      LET m == Matching(calls[c].input.filter)
          items == ResultOf(c).items
      IN  /\ Int2Num(Len(items)) =
               Min(calls[c].input.limit, Int2Num(ResultOf(c).totalFound))
          /\ \A p \in 1..Len(items) :
               \E i \in m : RankIn(m, i) = p /\ SameFields(items[p], allItems[i])
====
